---- MODULE Spec2Model ----
(***************************************************************************)
(* The ESLint rule no-explicit-type-exports                                *)
(* (src/rules/no-explicit-type-exports.ts) as a state machine over one     *)
(* file traversal.  Strings of the program (names, specifier labels) are   *)
(* sequences of one-character strings, so that name[0], name[1],           *)
(* indexOf and the "a as b" label format are computed, not assumed.        *)
(***************************************************************************)
EXTENDS Integers, Sequences, FiniteSets, TLC

VARIABLES
    file,               \* context.getSourceCode().ast.body of the linted file
    pc,                 \* index in file of the next top-level node the host visits
    AllTypedImports,    \* create(): const AllTypedImports: string[]
    AllRegularImports,  \* create(): const AllRegularImports: string[]
    reports,            \* the context.report calls of this traversal, in order
    visit,              \* the locals of the last statement visit
    pass,               \* 1: first traversal, 2: traversal of the fixed file
    produced,           \* indices in file of the statements a fix produced
    probe               \* input and result of a pure function applied on its own

vars == <<file, pc, AllTypedImports, AllRegularImports, reports, visit, pass,
          produced, probe>>

----------------------------------------------------------------------------
(* Bounds *)

MaxStmts == 3       \* top-level statements in a linted file
MaxNameLen == 4     \* characters in a name given to isInterface
MaxDecls == 2       \* declarations in a file given to getTypeDefinitions

----------------------------------------------------------------------------
(* Strings *)

Undefined == <<"undefined">>        \* the JavaScript value undefined, for a name
NoSource == "null"                  \* node.source of a statement with no from clause

AsInfix == <<" ", "a", "s", " ">>

LowerCase == <<"a", "b", "c", "d", "e", "f", "g", "h", "i", "j", "k", "l", "m",
               "n", "o", "p", "q", "r", "s", "t", "u", "v", "w", "x", "y", "z">>
UpperCase == <<"A", "B", "C", "D", "E", "F", "G", "H", "I", "J", "K", "L", "M",
               "N", "O", "P", "Q", "R", "S", "T", "U", "V", "W", "X", "Y", "Z">>

\* String.prototype.toUpperCase on one character
toUpperCase(c) ==
    IF \E i \in 1..26 : LowerCase[i] = c
    THEN UpperCase[CHOOSE i \in 1..26 : LowerCase[i] = c]
    ELSE c

\* hay.indexOf(needle) !== -1
Includes(hay, needle) ==
    \E i \in 1..(Len(hay) - Len(needle) + 1) :
        SubSeq(hay, i, i + Len(needle) - 1) = needle

\* Array.prototype.includes
InArray(arr, x) == \E i \in 1..Len(arr) : arr[i] = x

\* Array.prototype.unshift in the place of push
unshift(arr, x) == <<x>> \o arr

\* Array.prototype.push
push(arr, x) == Append(arr, x)

\* `${a} as ${b}`
AsLabel(a, b) == a \o AsInfix \o b

IThing == <<"I", "T", "h", "i", "n", "g">>
Thing == <<"T", "h", "i", "n", "g">>
value == <<"v", "a", "l", "u", "e">>
I == <<"I">>

----------------------------------------------------------------------------
(* Syntax tree nodes (TSESTree) *)

ImportSpecifier(imported, local) ==
    [type |-> "ImportSpecifier", local |-> local, imported |-> imported,
     exported |-> Undefined]

ImportDefaultSpecifier(local) ==
    [type |-> "ImportDefaultSpecifier", local |-> local, imported |-> Undefined,
     exported |-> Undefined]

ImportNamespaceSpecifier(local) ==
    [type |-> "ImportNamespaceSpecifier", local |-> local, imported |-> Undefined,
     exported |-> Undefined]

ExportSpecifier(local, exported) ==
    [type |-> "ExportSpecifier", local |-> local, imported |-> Undefined,
     exported |-> exported]

NoDeclaration == [type |-> "null"]  \* node.declaration of a statement that wraps none

Node(type, id, members, typeAnnotation, importKind, exportKind, source, specifiers) ==
    [type |-> type, id |-> id, bodyType |-> IF type = "TSInterfaceDeclaration"
                                            THEN "TSInterfaceBody" ELSE "undefined",
     members |-> members, typeAnnotation |-> typeAnnotation,
     importKind |-> importKind, exportKind |-> exportKind,
     source |-> source, specifiers |-> specifiers, declaration |-> NoDeclaration]

\* interface id { members }
TSInterfaceDeclaration(id, members) ==
    Node("TSInterfaceDeclaration", id, members, "undefined", "undefined",
         "undefined", NoSource, <<>>)

\* type id = <typeAnnotation>
TSTypeAliasDeclaration(id, typeAnnotation) ==
    Node("TSTypeAliasDeclaration", id, 0, typeAnnotation, "undefined",
         "undefined", NoSource, <<>>)

\* import [type] { specifiers } from source
ImportDeclaration(importKind, specifiers, source) ==
    Node("ImportDeclaration", Undefined, 0, "undefined", importKind,
         "undefined", source, specifiers)

\* export [type] { specifiers } [from source]
ExportNamedDeclaration(exportKind, specifiers, source) ==
    Node("ExportNamedDeclaration", Undefined, 0, "undefined", "undefined",
         exportKind, source, specifiers)

\* export <declaration>
ExportedDeclaration(declaration) ==
    [ExportNamedDeclaration("value", <<>>, NoSource)
        EXCEPT !.declaration = declaration]

\* const id = ...
VariableDeclaration(id) ==
    Node("VariableDeclaration", id, 0, "undefined", "undefined", "undefined",
         NoSource, <<>>)

----------------------------------------------------------------------------
(* errorMessage, isTypeStatement, isExport *)

\* errorMessage with its first two arguments in the other order
errorMessageSwapped(action, statement, name) ==
    <<"Do not ", statement, "port '", name, "' it is an ", action,
      "ported type or interface.">>

errorMessage(action, statement, name) ==
    <<"Do not ", action, "port '", name, "' it is an ", statement,
      "ported type or interface.">>

\* isTypeStatement with the qualifier never recognised
isTypeStatementNever(node) == FALSE

isTypeStatement(node) ==
    node.exportKind = "type" \/ node.importKind = "type"

isExport(exported) == exported.exported # Undefined

----------------------------------------------------------------------------
(* getTypeDefinitions *)

RECURSIVE declarationsUpTo(_, _)
\* the Set declarations after the forEach callback ran on body[1..n]
declarationsUpTo(body, n) ==
    IF n = 0 THEN {}
    ELSE LET declarations == declarationsUpTo(body, n - 1)
             node == body[n]
         IN  IF node.type = "TSInterfaceDeclaration"
             THEN IF node.bodyType = "TSInterfaceBody"
                  THEN declarations \cup {node.id}
                  ELSE declarations
             ELSE IF node.type = "TSTypeAliasDeclaration"
             THEN IF node.typeAnnotation \in
                        {"TSFunctionType", "TSTypeReference", "TSUnionType"}
                  THEN declarations \cup {node.id}
                  ELSE declarations
             ELSE declarations

\* getTypeDefinitions with the type alias branch left out
getTypeDefinitionsInterfacesOnly(ast) ==
    {ast[i].id : i \in {j \in 1..Len(ast) : ast[j].type = "TSInterfaceDeclaration"}}

getTypeDefinitions(ast) == declarationsUpTo(ast, Len(ast))

----------------------------------------------------------------------------
(* isInterface, getInterfaceImports *)

Returned(b) == [threw |-> FALSE, value |-> b]
Thrown == [threw |-> TRUE, value |-> FALSE]     \* TypeError

\* name[0] === 'I' && name[1] === name[1].toUpperCase()
isInterface(name) ==
    IF Len(name) = 0 \/ name[1] # "I" THEN Returned(FALSE)
    ELSE IF Len(name) < 2 THEN Thrown
    ELSE Returned(name[2] = toUpperCase(name[2]))

RECURSIVE Flatten(_)
Flatten(seqs) == IF seqs = <<>> THEN <<>> ELSE Head(seqs) \o Flatten(Tail(seqs))

\* the specifiers the two nested forEach loops of getInterfaceImports reach, in order
ImportClauses(ast) ==
    Flatten([i \in 1..Len(ast) |->
                IF ast[i].type = "ImportDeclaration" THEN ast[i].specifiers
                ELSE <<>>])

RECURSIVE scanInterfaces(_, _)
\* the Set interfaces at the return of getInterfaceImports, the catch included
scanInterfaces(specifiers, interfaces) ==
    IF specifiers = <<>> THEN interfaces
    ELSE LET specifier == Head(specifiers)
             rest == Tail(specifiers)
             label == IF specifier.local # specifier.imported
                      THEN AsLabel(specifier.imported, specifier.local)
                      ELSE specifier.local
         IN  IF specifier.type # "ImportSpecifier"
             THEN scanInterfaces(rest, interfaces)
             ELSE LET l == isInterface(specifier.local) IN
                  IF l.threw THEN interfaces
                  ELSE IF l.value THEN scanInterfaces(rest, interfaces \cup {label})
                  ELSE LET m == isInterface(specifier.imported) IN
                       IF m.threw THEN interfaces
                       ELSE IF m.value
                            THEN scanInterfaces(rest, interfaces \cup {label})
                            ELSE scanInterfaces(rest, interfaces)

getInterfaceImports(ast) == scanInterfaces(ImportClauses(ast), {})

\* [...haystack].map(hay => hay.indexOf(needle) !== -1).includes(true)
findInSet(needle, haystack) == \E hay \in haystack : Includes(hay, needle)

----------------------------------------------------------------------------
(* getExports, parseFileForExports: ./getExports and ./getTypeExports *)

RECURSIVE AddAll(_, _)
\* Set.prototype.add of each element of xs to the insertion-ordered Set arr
AddAll(arr, xs) ==
    IF xs = <<>> THEN arr
    ELSE AddAll(IF InArray(arr, Head(xs)) THEN arr ELSE Append(arr, Head(xs)),
                Tail(xs))

\* the names a file exports, in the order of a Set's iteration
getExports(ast) ==
    AddAll(<<>>,
           Flatten([i \in 1..Len(ast) |->
               IF ast[i].type # "ExportNamedDeclaration" THEN <<>>
               ELSE IF ast[i].declaration # NoDeclaration
               THEN <<ast[i].declaration.id>>
               ELSE [j \in 1..Len(ast[i].specifiers) |->
                        ast[i].specifiers[j].exported]]))

Range(arr) == {arr[i] : i \in 1..Len(arr)}

\* module './A':  interface IThing {}  const value = 1  export { IThing, value }
ModuleA ==
    <<TSInterfaceDeclaration(IThing, 0),
      VariableDeclaration(value),
      ExportNamedDeclaration("value",
          <<ExportSpecifier(IThing, IThing), ExportSpecifier(value, value)>>,
          NoSource)>>

\* the modules file resolution finds; any other path does not resolve
ResolvedModules == [path \in {"./A"} |-> ModuleA]

\* the typed-export set of the module at sourceName, or undefined
parseFileForExports(sourceName) ==
    IF sourceName \in DOMAIN ResolvedModules
    THEN [defined |-> TRUE,
          names |-> getTypeDefinitions(ResolvedModules[sourceName])
                        \cap Range(getExports(ResolvedModules[sourceName]))]
    ELSE [defined |-> FALSE, names |-> {}]

----------------------------------------------------------------------------
(* exportFixer, importFixer: ../fix *)

\* the position of " as " in a label, 0 when the label is a bare name
AsIndex(label) ==
    IF Includes(label, AsInfix)
    THEN CHOOSE i \in 1..Len(label) : SubSeq(label, i, i + 3) = AsInfix
    ELSE 0

LeftOfAs(label) ==
    IF AsIndex(label) = 0 THEN label ELSE SubSeq(label, 1, AsIndex(label) - 1)

RightOfAs(label) ==
    IF AsIndex(label) = 0 THEN label
    ELSE SubSeq(label, AsIndex(label) + 4, Len(label))

\* the specifier the parser reads back from a label written inside import { }
ParseImportLabel(label) == ImportSpecifier(LeftOfAs(label), RightOfAs(label))

\* the specifier the parser reads back from a label written inside export { }
ParseExportLabel(label) == ExportSpecifier(LeftOfAs(label), RightOfAs(label))

\* the statements the text written by importFixer parses to
importFixer(node, typedImports, regularImports) ==
    (IF typedImports = <<>> THEN <<>>
     ELSE <<ImportDeclaration("type",
              [i \in 1..Len(typedImports) |-> ParseImportLabel(typedImports[i])],
              node.source)>>)
    \o
    (IF regularImports = <<>> THEN <<>>
     ELSE <<ImportDeclaration("value",
              [i \in 1..Len(regularImports) |-> ParseImportLabel(regularImports[i])],
              node.source)>>)

\* the statements the text written by exportFixer parses to
exportFixer(node, typedExports, regularExports) ==
    (IF typedExports = <<>> THEN <<>>
     ELSE <<ExportNamedDeclaration("type",
              [i \in 1..Len(typedExports) |-> ParseExportLabel(typedExports[i])],
              node.source)>>)
    \o
    (IF regularExports = <<>> THEN <<>>
     ELSE <<ExportNamedDeclaration("value",
              [i \in 1..Len(regularExports) |-> ParseExportLabel(regularExports[i])],
              node.source)>>)

----------------------------------------------------------------------------
(* getImportExportDeclarations *)

\* the object given to context.report; fix is kept as the fixer it calls
\* and the two arrays it closes over
Report(index, message, fixer, typed, regular) ==
    [node |-> index, message |-> message, fixer |-> fixer,
     typed |-> typed, regular |-> regular]

\* line 127 with every import clause taken for a named specifier
isImportSpecifierAlways(specifier) == TRUE

\* line 127: specifier.type === 'ImportSpecifier'
isImportSpecifier(specifier) == specifier.type = "ImportSpecifier"

\* lines 133-136 without the last disjunct
isTypedImportThreeWay(name, typedExports, regularExports, interfaceImports) ==
    \/ findInSet(name, typedExports)
    \/ ~findInSet(name, regularExports)
    \/ name \in interfaceImports

\* lines 133-136: the condition that sends an import specifier to typedImports
isTypedImport(name, typedExports, regularExports, interfaceImports) ==
    \/ findInSet(name, typedExports)
    \/ ~findInSet(name, regularExports)
    \/ name \in interfaceImports
    \/ findInSet(name, regularExports)

RECURSIVE classifyImports(_, _, _, _, _)
\* lines 124-146: the forEach over node.specifiers of a statement with a source;
\* acc holds typedImports, regularImports and the two accumulators
classifyImports(specifiers, typedExports, regularExports, interfaceImports, acc) ==
    IF specifiers = <<>> THEN acc
    ELSE LET specifier == Head(specifiers)
             name == specifier.local
             importedName == IF name # specifier.imported
                             THEN AsLabel(specifier.imported, name)
                             ELSE name
         IN  IF isImportSpecifier(specifier)
             THEN IF isTypedImport(name, typedExports, regularExports,
                                   interfaceImports)
                  THEN classifyImports(Tail(specifiers), typedExports,
                           regularExports, interfaceImports,
                           [acc EXCEPT !.typedImports = push(@, importedName),
                                       !.AllTypedImports = push(@, importedName)])
                  ELSE classifyImports(Tail(specifiers), typedExports,
                           regularExports, interfaceImports,
                           [acc EXCEPT !.regularImports = push(@, importedName),
                                       !.AllRegularImports = push(@, importedName)])
             ELSE classifyImports(Tail(specifiers), typedExports, regularExports,
                                  interfaceImports, acc)

\* lines 150-152 without the test of typedImports
isMisclassifiedAnyExport(exp, node, acc) ==
    /\ ~InArray(acc.AllRegularImports, exp)
    /\ ~isTypeStatement(node)

\* lines 150-152: the condition that reports the exported name exp
isMisclassified(exp, node, acc) ==
    /\ InArray(acc.typedImports, exp)
    /\ ~InArray(acc.AllRegularImports, exp)
    /\ ~isTypeStatement(node)

RECURSIVE reportExports(_, _, _, _, _)
\* lines 148-178: the forEach over getExports(ast)
reportExports(exps, type, index, node, acc) ==
    IF exps = <<>> THEN <<>>
    ELSE LET exp == Head(exps)
             isExp == type = "ExportNamedDeclaration"
         IN  (IF isMisclassified(exp, node, acc)
              THEN <<Report(index,
                            errorMessage(IF isExp THEN "ex" ELSE "im",
                                         IF isExp THEN "im" ELSE "ex", exp),
                            IF isExp THEN "exportFixer" ELSE "importFixer",
                            acc.typedImports, acc.regularImports)>>
              ELSE <<>>)
             \o reportExports(Tail(exps), type, index, node, acc)

\* lines 193-197 without the test of interfaceImports
isTypedExportNoInterfaceImports(name, exportedName, typeDefinitions, interfaceImports, typed, regular) ==
    \/ (InArray(typed, exportedName) /\ ~InArray(regular, exportedName))
    \/ name \in typeDefinitions
    \/ InArray(regular, exportedName)

\* lines 193-197 without the test of AllTypedImports
isTypedExportNoAccumulator(name, exportedName, typeDefinitions, interfaceImports, typed, regular) ==
    \/ name \in typeDefinitions
    \/ name \in interfaceImports
    \/ InArray(regular, exportedName)

\* lines 193-197: the condition that sends an export specifier to typedExports
isTypedExport(name, exportedName, typeDefinitions, interfaceImports, typed, regular) ==
    \/ (InArray(typed, exportedName) /\ ~InArray(regular, exportedName))
    \/ name \in typeDefinitions
    \/ name \in interfaceImports
    \/ InArray(regular, exportedName)

RECURSIVE classifyExports(_, _, _, _, _, _)
\* lines 183-208: the forEach over node.specifiers of an export with no source;
\* acc holds typedExports and regularExports
classifyExports(specifiers, typeDefinitions, interfaceImports, typed, regular, acc) ==
    IF specifiers = <<>> THEN acc
    ELSE LET specifier == Head(specifiers)
             name == specifier.local
             exportedName == IF isExport(specifier) /\ specifier.exported # name
                             THEN AsLabel(name, specifier.exported)
                             ELSE name
         IN  IF isTypedExport(name, exportedName, typeDefinitions,
                              interfaceImports, typed, regular)
             THEN classifyExports(Tail(specifiers), typeDefinitions,
                      interfaceImports, typed, regular,
                      [acc EXCEPT !.typedExports =
                          push(@, IF name = exportedName THEN name
                                  ELSE exportedName)])
             ELSE classifyExports(Tail(specifiers), typeDefinitions,
                      interfaceImports, typed, regular,
                      [acc EXCEPT !.regularExports = push(@, name)])

\* one call of the handler getImportExportDeclarations(type) on ast.body[index]:
\* the accumulators after it, the reports it made and its locals
getImportExportDeclarations(type, ast, index, typed, regular) ==
    LET node == ast[index]
        typeDefinitions == getTypeDefinitions(ast)
        interfaceImports == getInterfaceImports(ast)
        sourceName == node.source
        locals == [node |-> index, typeDefinitions |-> typeDefinitions,
                   interfaceImports |-> interfaceImports]
    IN  IF sourceName # NoSource
        THEN LET typedExports == parseFileForExports(sourceName)
                 regularExports == Range(getExports(ast))
             IN  IF typedExports.defined
                 THEN LET acc == classifyImports(node.specifiers,
                                     typedExports.names, regularExports,
                                     interfaceImports,
                                     [typedImports |-> <<>>,
                                      regularImports |-> <<>>,
                                      AllTypedImports |-> typed,
                                      AllRegularImports |-> regular])
                      IN  [AllTypedImports |-> acc.AllTypedImports,
                           AllRegularImports |-> acc.AllRegularImports,
                           reports |-> reportExports(getExports(ast), type,
                                                     index, node, acc),
                           visit |-> locals @@
                               [branch |-> "source", typed |-> acc.typedImports,
                                regular |-> acc.regularImports]]
                 ELSE [AllTypedImports |-> typed, AllRegularImports |-> regular,
                       reports |-> <<>>,
                       visit |-> locals @@
                           [branch |-> "unresolved", typed |-> <<>>,
                            regular |-> <<>>]]
        ELSE IF type = "ExportNamedDeclaration"
        THEN LET acc == classifyExports(node.specifiers, typeDefinitions,
                                        interfaceImports, typed, regular,
                                        [typedExports |-> <<>>,
                                         regularExports |-> <<>>])
             IN  [AllTypedImports |-> typed, AllRegularImports |-> regular,
                  reports |->
                      IF Len(acc.typedExports) # 0 /\ ~isTypeStatement(node)
                      THEN <<Report(index,
                                    errorMessage("ex", "ex", acc.typedExports[1]),
                                    "exportFixer", acc.typedExports,
                                    acc.regularExports)>>
                      ELSE <<>>,
                  visit |-> locals @@
                      [branch |-> "local", typed |-> acc.typedExports,
                       regular |-> acc.regularExports]]
        ELSE [AllTypedImports |-> typed, AllRegularImports |-> regular,
              reports |-> <<>>,
              visit |-> locals @@
                  [branch |-> "none", typed |-> <<>>, regular |-> <<>>]]

----------------------------------------------------------------------------
(* The files the traversal runs over *)

ModulePaths == {"./A", "./missing"}

\* the import and export statements and declarations a linted file is made of
Statements ==
    { ImportDeclaration("value",
          <<ImportSpecifier(IThing, IThing), ImportSpecifier(value, value)>>, "./A"),
      ImportDeclaration("type", <<ImportSpecifier(IThing, IThing)>>, "./A"),
      ImportDeclaration("value", <<ImportSpecifier(value, value)>>, "./A"),
      ImportDeclaration("value", <<ImportSpecifier(IThing, Thing)>>, "./A"),
      ImportDeclaration("value", <<ImportSpecifier(IThing, IThing)>>, "./missing"),
      ImportDeclaration("value",
          <<ImportDefaultSpecifier(value), ImportNamespaceSpecifier(Thing)>>, "./A"),
      ImportDeclaration("value", <<ImportSpecifier(I, I)>>, "./A"),
      ImportDeclaration("type", <<ImportSpecifier(value, value)>>, "./A"),
      ExportNamedDeclaration("value", <<ExportSpecifier(Thing, Thing)>>, NoSource),
      ExportNamedDeclaration("value", <<ExportSpecifier(value, value)>>, NoSource),
      ExportNamedDeclaration("value",
          <<ExportSpecifier(IThing, IThing), ExportSpecifier(value, value)>>,
          NoSource),
      ExportNamedDeclaration("type", <<ExportSpecifier(IThing, IThing)>>, NoSource),
      ExportNamedDeclaration("value",
          <<ExportSpecifier(IThing, IThing), ExportSpecifier(value, Thing)>>,
          NoSource),
      ExportNamedDeclaration("value", <<ExportSpecifier(value, Thing)>>, "./A"),
      TSInterfaceDeclaration(IThing, 1) }

Files == UNION {[1..n -> Statements] : n \in 0..MaxStmts}

NoVisit ==
    [node |-> 0, typeDefinitions |-> {}, interfaceImports |-> {},
     branch |-> "none", typed |-> <<>>, regular |-> <<>>]

NoProbe == [fn |-> "none", done |-> FALSE]

----------------------------------------------------------------------------
(* The traversal *)

\* create(context) for a file the host is about to traverse
Init ==
    /\ file \in Files
    /\ pc = 1
    /\ AllTypedImports = <<>>
    /\ AllRegularImports = <<>>
    /\ reports = <<>>
    /\ visit = NoVisit
    /\ pass = 1
    /\ produced = {}
    /\ probe = NoProbe

\* the host calls the handler registered for the type of file[pc]
Handle(type) ==
    /\ pc <= Len(file)
    /\ file[pc].type = type
    /\ LET r == getImportExportDeclarations(type, file, pc, AllTypedImports,
                                            AllRegularImports)
       IN  /\ AllTypedImports' = r.AllTypedImports
           /\ AllRegularImports' = r.AllRegularImports
           /\ reports' = reports \o r.reports
           /\ visit' = r.visit
    /\ pc' = pc + 1
    /\ UNCHANGED <<file, pass, produced, probe>>

ImportDeclarationHandler == Handle("ImportDeclaration")

ExportNamedDeclarationHandler == Handle("ExportNamedDeclaration")

\* the host passes a node the rule registered no handler for
OtherNode ==
    /\ pc <= Len(file)
    /\ file[pc].type \notin {"ImportDeclaration", "ExportNamedDeclaration"}
    /\ pc' = pc + 1
    /\ UNCHANGED <<file, AllTypedImports, AllRegularImports, reports, visit,
                   pass, produced, probe>>

\* the text a report's fix writes in place of its node, parsed again
FixOutput(ast, r) ==
    IF r.fixer = "exportFixer"
    THEN exportFixer(ast[r.node], r.typed, r.regular)
    ELSE importFixer(ast[r.node], r.typed, r.regular)

\* the host applies the fix of one report of the finished traversal and
\* lints the resulting file again, with a new call of create
ApplyFix ==
    /\ pass = 1
    /\ pc > Len(file)
    /\ \E k \in 1..Len(reports) :
         LET r == reports[k]
             out == FixOutput(file, r)
         IN  /\ file' = SubSeq(file, 1, r.node - 1) \o out
                            \o SubSeq(file, r.node + 1, Len(file))
             /\ produced' = r.node..(r.node + Len(out) - 1)
    /\ pass' = 2
    /\ pc' = 1
    /\ AllTypedImports' = <<>>
    /\ AllRegularImports' = <<>>
    /\ reports' = <<>>
    /\ visit' = NoVisit
    /\ UNCHANGED probe

Next ==
    \/ ImportDeclarationHandler
    \/ ExportNamedDeclarationHandler
    \/ OtherNode
    \/ ApplyFix

Spec == Init /\ [][Next]_vars

----------------------------------------------------------------------------
(* isInterface applied to every short name *)

Alphabet == {"I", "F", "d", "o", "1"}

Names == UNION {[1..n -> Alphabet] : n \in 0..MaxNameLen}

InitHeuristic ==
    /\ file = <<>>
    /\ pc = 1
    /\ AllTypedImports = <<>>
    /\ AllRegularImports = <<>>
    /\ reports = <<>>
    /\ visit = NoVisit
    /\ pass = 1
    /\ produced = {}
    /\ probe \in {[fn |-> "isInterface", done |-> FALSE, name |-> n,
                   result |-> Returned(FALSE)] : n \in Names}

CallIsInterface ==
    /\ probe.fn = "isInterface"
    /\ ~probe.done
    /\ probe' = [probe EXCEPT !.done = TRUE, !.result = isInterface(probe.name)]
    /\ UNCHANGED <<file, pc, AllTypedImports, AllRegularImports, reports, visit,
                   pass, produced>>

NextHeuristic == CallIsInterface

SpecHeuristic == InitHeuristic /\ [][NextHeuristic]_vars

----------------------------------------------------------------------------
(* getTypeDefinitions applied to files of declarations *)

TypeAnnotations ==
    {"TSFunctionType", "TSTypeReference", "TSUnionType", "TSStringKeyword",
     "TSTupleType", "TSIntersectionType", "TSMappedType"}

Declarations ==
    {TSInterfaceDeclaration(id, m) : id \in {IThing, Thing}, m \in {0, 1}}
    \cup {TSTypeAliasDeclaration(id, t) : id \in {IThing, Thing},
                                          t \in TypeAnnotations}
    \cup {VariableDeclaration(value),
          ExportedDeclaration(TSInterfaceDeclaration(Thing, 1)),
          ExportedDeclaration(TSTypeAliasDeclaration(IThing, "TSUnionType"))}

DeclarationFiles == UNION {[1..n -> Declarations] : n \in 0..MaxDecls}

InitScan ==
    /\ file \in DeclarationFiles
    /\ pc = 1
    /\ AllTypedImports = <<>>
    /\ AllRegularImports = <<>>
    /\ reports = <<>>
    /\ visit = NoVisit
    /\ pass = 1
    /\ produced = {}
    /\ probe = [fn |-> "getTypeDefinitions", done |-> FALSE, result |-> {}]

CallGetTypeDefinitions ==
    /\ probe.fn = "getTypeDefinitions"
    /\ ~probe.done
    /\ probe' = [probe EXCEPT !.done = TRUE, !.result = getTypeDefinitions(file)]
    /\ UNCHANGED <<file, pc, AllTypedImports, AllRegularImports, reports, visit,
                   pass, produced>>

NextScan == CallGetTypeDefinitions

SpecScan == InitScan /\ [][NextScan]_vars

----------------------------------------------------------------------------
(* Properties *)

\* the label of a specifier in its original renaming form
LabelOf(specifier) ==
    IF specifier.type = "ExportSpecifier"
    THEN IF specifier.local # specifier.exported
         THEN AsLabel(specifier.local, specifier.exported)
         ELSE specifier.local
    ELSE IF specifier.type = "ImportSpecifier" /\ specifier.local # specifier.imported
         THEN AsLabel(specifier.imported, specifier.local)
         ELSE specifier.local

LabelsOf(node) == {LabelOf(node.specifiers[i]) : i \in 1..Len(node.specifiers)}

ReportsOn(n) == {k \in 1..Len(reports) : reports[k].node = n}

IsTypeOnly(node) == node.importKind = "type" \/ node.exportKind = "type"

ImportBoth ==
    ImportDeclaration("value",
        <<ImportSpecifier(IThing, IThing), ImportSpecifier(value, value)>>, "./A")

ExportBoth ==
    ExportNamedDeclaration("value",
        <<ExportSpecifier(IThing, IThing), ExportSpecifier(value, value)>>, NoSource)

\* C1: in the file whose only statement is import { IThing, value } from './A',
\* the visit of that statement reports exactly one diagnostic on it, whose fix
\* receives the type bucket [IThing] and the value bucket [value].
C1_OneDiagnosticSplit ==
    (pass = 1 /\ file = <<ImportBoth>> /\ pc = 2) =>
        /\ Len(reports) = 1
        /\ reports[1].node = 1
        /\ reports[1].typed = <<IThing>>
        /\ reports[1].regular = <<value>>

\* C2: a statement written with the type-only qualifier is never reported, and
\* the file import type { IThing } from './A'; import { value } from './A'
\* ends its traversal with no diagnostic.
C2_TypeOnlyNeverReported ==
    /\ \A k \in 1..Len(reports) : ~IsTypeOnly(file[reports[k].node])
    /\ (/\ pass = 1
        /\ file = <<ImportDeclaration("type", <<ImportSpecifier(IThing, IThing)>>,
                                      "./A"),
                    ImportDeclaration("value", <<ImportSpecifier(value, value)>>,
                                      "./A")>>
        /\ pc = 3) => reports = <<>>

\* a type-only import was visited whose type bucket holds a name the file exports
C2_Witness ==
    /\ visit.node # 0
    /\ visit.branch = "source"
    /\ file[visit.node].importKind = "type"
    /\ \E i \in 1..Len(visit.typed) : InArray(getExports(file), visit.typed[i])
    /\ reports = <<>>

\* C3: after a reported statement was replaced by its fix output, the fresh
\* traversal of the resulting file reports nothing on the statements the fix
\* produced.
C3_FixIdempotent ==
    pass = 2 => \A k \in 1..Len(reports) : reports[k].node \notin produced

\* C4: every label handed to a fix, in the type bucket and in the value
\* bucket alike, is the label of a specifier of the reported statement in its
\* original renaming form ("<original> as <renamed>" or the bare name).
C4_RenamePreserved ==
    \A k \in 1..Len(reports) :
        Range(reports[k].typed) \cup Range(reports[k].regular)
            \subseteq LabelsOf(file[reports[k].node])

\* C5: a visited export { IThing, value } with no source, in a file that
\* declares the interface IThing and never imports IThing, is reported with
\* the type bucket [IThing] and the value bucket [value], whatever the
\* statements visited before it accumulated.
C5_LocalInterfaceExportSplit ==
    \A n \in 1..(pc - 1) :
        (/\ pass = 1
         /\ file[n] = ExportBoth
         /\ \E m \in 1..Len(file) :
               file[m].type = "TSInterfaceDeclaration" /\ file[m].id = IThing
         /\ \A m \in 1..Len(file) :
               file[m].type = "ImportDeclaration" =>
                   \A i \in 1..Len(file[m].specifiers) :
                       /\ file[m].specifiers[i].local # IThing
                       /\ file[m].specifiers[i].imported # IThing)
        => \E k \in ReportsOn(n) :
              /\ reports[k].typed = <<IThing>>
              /\ reports[k].regular = <<value>>

\* C6: the two buckets of a visited statement are disjoint and together hold
\* exactly the labels of the statement's specifiers.
C6_BucketsPartitionSpecifiers ==
    visit.node # 0 =>
        /\ Range(visit.typed) \cap Range(visit.regular) = {}
        /\ Range(visit.typed) \cup Range(visit.regular) = LabelsOf(file[visit.node])

\* C7: when the module of a visited statement does not resolve, every
\* specifier whose label is in the interface-import set is in the type bucket
\* and its label was appended to AllTypedImports.
C7_UnresolvedFallsBackToLocalSignals ==
    (/\ visit.node # 0
     /\ file[visit.node].source # NoSource
     /\ ~parseFileForExports(file[visit.node].source).defined)
    => \A i \in 1..Len(file[visit.node].specifiers) :
          LET label == LabelOf(file[visit.node].specifiers[i])
          IN  label \in visit.interfaceImports =>
                  /\ InArray(visit.typed, label)
                  /\ InArray(AllTypedImports, label)

\* C8: isInterface(name) returns, for every name, and returns true exactly
\* when name is non-empty, starts with 'I' and has no second character or an
\* uppercase letter as second character.
C8_IsInterfaceContract ==
    (probe.fn = "isInterface" /\ probe.done) =>
        /\ ~probe.result.threw
        /\ probe.result.value =
              (/\ Len(probe.name) > 0
               /\ probe.name[1] = "I"
               /\ (Len(probe.name) >= 2 => probe.name[2] \in Range(UpperCase)))

InterfaceNames(ast, withEmptyBody) ==
    {ast[i].id : i \in {j \in 1..Len(ast) :
        /\ ast[j].type = "TSInterfaceDeclaration"
        /\ (withEmptyBody \/ ast[j].members > 0)}}

StructuralAliasNames(ast) ==
    {ast[i].id : i \in {j \in 1..Len(ast) :
        /\ ast[j].type = "TSTypeAliasDeclaration"
        /\ ast[j].typeAnnotation \in
              {"TSFunctionType", "TSTypeReference", "TSUnionType"}}}

\* C9 as stated: getTypeDefinitions returns exactly the names of the interfaces
\* with a non-empty body and of the type aliases of a function type, a type
\* reference or a union.
C9_NonEmptyInterfacesAndStructuralAliases ==
    (probe.fn = "getTypeDefinitions" /\ probe.done) =>
        probe.result = InterfaceNames(file, FALSE) \cup StructuralAliasNames(file)

\* C9 as amended: getTypeDefinitions returns exactly the names of the top-level
\* interface declarations, empty body or not, and of the type aliases of a
\* function type, a type reference or a union.
C9_AllInterfacesAndStructuralAliases ==
    (probe.fn = "getTypeDefinitions" /\ probe.done) =>
        probe.result = InterfaceNames(file, TRUE) \cup StructuralAliasNames(file)

\* the scan ran over an interface with an empty body, a union alias and a
\* tuple alias, and kept the first two names only
C9_Witness ==
    /\ probe.fn = "getTypeDefinitions" /\ probe.done
    /\ file = <<TSInterfaceDeclaration(IThing, 0),
                TSTypeAliasDeclaration(Thing, "TSUnionType")>>
    /\ probe.result = {IThing, Thing}

ActionOf(node) == IF node.type = "ImportDeclaration" THEN "im" ELSE "ex"

OppositeOf(action) == IF action = "im" THEN "ex" ELSE "im"

\* C10 as stated: every diagnostic names the action of its statement and calls
\* the symbol a type or interface of the opposite kind.
C10_MessageOppositeKind ==
    \A k \in 1..Len(reports) :
        /\ reports[k].message[2] = ActionOf(file[reports[k].node])
        /\ reports[k].message[6] = OppositeOf(ActionOf(file[reports[k].node]))

\* C10 as amended: every diagnostic names the action of its statement; an
\* import diagnostic and an export diagnostic alike call the symbol an
\* exported type or interface, and an export diagnostic only comes from an
\* export statement with no source path.
C10_MessageExportedKind ==
    \A k \in 1..Len(reports) :
        /\ reports[k].message[2] = ActionOf(file[reports[k].node])
        /\ reports[k].message[6] = "ex"
        /\ file[reports[k].node].type = "ExportNamedDeclaration" =>
               file[reports[k].node].source = NoSource

\* a traversal reported an import statement and an export statement
C10_Witness ==
    /\ \E k \in 1..Len(reports) : file[reports[k].node].type = "ImportDeclaration"
    /\ \E k \in 1..Len(reports) :
          file[reports[k].node].type = "ExportNamedDeclaration"

\* the statement the last visit was made on
Visited == file[visit.node]

\* the reports made on the statement at index n, in order
ReportSeqOn(n) == SelectSeq(reports, LAMBDA r : r.node = n)

\* C11: after the visit of a statement with a source whose module resolves, a
\* named import specifier is in the type bucket and in AllTypedImports if its
\* name substring-matches the typed-export set, or does not substring-match the
\* regular-export set, or its label is in the interface-import set, and is in
\* the value bucket and in AllRegularImports if it meets none of the three.
C11_ThreeWayClassification ==
    (/\ visit.node # 0
     /\ Visited.source # NoSource
     /\ parseFileForExports(Visited.source).defined)
    => \A i \in 1..Len(Visited.specifiers) :
          LET specifier == Visited.specifiers[i]
              label == LabelOf(specifier)
              meetsOne ==
                  \/ findInSet(specifier.local,
                               parseFileForExports(Visited.source).names)
                  \/ ~findInSet(specifier.local, Range(getExports(file)))
                  \/ label \in visit.interfaceImports
          IN  specifier.type = "ImportSpecifier" =>
                  IF meetsOne
                  THEN /\ InArray(visit.typed, label)
                       /\ InArray(AllTypedImports, label)
                  ELSE /\ InArray(visit.regular, label)
                       /\ InArray(AllRegularImports, label)

\* C12: the visit of a statement with a source that is not type-only reports
\* one diagnostic per name of the file's export enumeration that is in the
\* statement's type bucket and not in AllRegularImports, in the enumeration's
\* order, each naming that name and carrying the statement's two buckets; with
\* no such name it reports nothing.
C12_OneDiagnosticPerExportedTypedName ==
    (/\ visit.node # 0
     /\ Visited.source # NoSource
     /\ ~IsTypeOnly(Visited))
    => LET names == SelectSeq(getExports(file),
                        LAMBDA e : /\ InArray(visit.typed, e)
                                   /\ ~InArray(AllRegularImports, e))
           made == ReportSeqOn(visit.node)
       IN  /\ Len(made) = Len(names)
           /\ \A k \in 1..Len(made) :
                 /\ made[k].message[4] = names[k]
                 /\ made[k].typed = visit.typed
                 /\ made[k].regular = visit.regular

\* an import was reported twice, once per exported name of its type bucket,
\* in a file that exports a third name the import does not bind
C12_Witness ==
    /\ visit.node # 0
    /\ Visited.type = "ImportDeclaration"
    /\ Len(ReportSeqOn(visit.node)) = 2
    /\ Len(getExports(file)) = 3

\* the condition that makes an export specifier type-exported, on the state
\* the visit of an export with no source ran in
TypeExported(specifier) ==
    LET label == LabelOf(specifier)
    IN  \/ (InArray(AllTypedImports, label) /\ ~InArray(AllRegularImports, label))
        \/ specifier.local \in visit.typeDefinitions
        \/ specifier.local \in visit.interfaceImports
        \/ InArray(AllRegularImports, label)

\* C13: the visit of a named export with no source that is not type-only puts
\* in the type bucket exactly the specifiers whose label is in AllTypedImports
\* and not in AllRegularImports, or whose local name is in the type-name set or
\* in the interface-import set, or whose label is in AllRegularImports; it
\* reports one diagnostic, naming the first of them in statement order, if
\* there is one, and none otherwise.
C13_LocalExportOneDiagnostic ==
    (/\ visit.node # 0
     /\ Visited.type = "ExportNamedDeclaration"
     /\ Visited.source = NoSource
     /\ ~IsTypeOnly(Visited))
    => LET typedOnes == SelectSeq(Visited.specifiers, TypeExported)
           made == ReportSeqOn(visit.node)
       IN  /\ visit.typed = [k \in 1..Len(typedOnes) |-> LabelOf(typedOnes[k])]
           /\ IF typedOnes # <<>>
              THEN /\ Len(made) = 1
                   /\ made[1].message[4] = LabelOf(typedOnes[1])
              ELSE made = <<>>

\* an export with no source was reported for a specifier that only the
\* interface-import set makes type-exported, and kept another in the value bucket
C13_Witness ==
    /\ visit.node # 0
    /\ Visited.type = "ExportNamedDeclaration"
    /\ Visited.source = NoSource
    /\ Len(ReportSeqOn(visit.node)) = 1
    /\ AllTypedImports = <<>>
    /\ visit.typeDefinitions = {}
    /\ visit.typed # <<>>
    /\ visit.regular # <<>>

IsPrefix(s, t) == Len(s) <= Len(t) /\ SubSeq(t, 1, Len(s)) = s

\* C14: within one traversal every step leaves the former content of
\* AllTypedImports and of AllRegularImports as a prefix of the new content, and
\* the step that starts a new traversal leaves both empty.
C14_AccumulatorsAppendOnly ==
    [][/\ pass' = pass => /\ IsPrefix(AllTypedImports, AllTypedImports')
                          /\ IsPrefix(AllRegularImports, AllRegularImports')
       /\ pass' # pass => /\ AllTypedImports' = <<>>
                          /\ AllRegularImports' = <<>>]_vars

\* a second import was visited and appended after the labels of the first;
\* and a traversal of a fixed file started on a file whose first traversal
\* had accumulated labels
C14_Witness ==
    /\ visit.node # 0
    /\ visit.branch = "source"
    /\ visit.typed # <<>>
    /\ Len(AllTypedImports) > Len(visit.typed)
    /\ pass = 2

\* getInterfaceImports reaches a specifier on which isInterface raises
InterfaceScanRaises(ast) ==
    \E i \in 1..Len(ImportClauses(ast)) :
        LET specifier == ImportClauses(ast)[i]
        IN  /\ specifier.type = "ImportSpecifier"
            /\ \/ isInterface(specifier.local).threw
               \/ /\ ~isInterface(specifier.local).value
                  /\ isInterface(specifier.imported).threw

\* C15: when the scan of the statement list raises part-way, the visit still
\* completes and the set the scan hands to it is empty, not the names
\* collected before the error.
C15_ScanErrorGivesEmptySet ==
    (visit.node # 0 /\ InterfaceScanRaises(file)) => visit.interfaceImports = {}

\* C16: AllRegularImports is empty in every reachable state, and the value
\* bucket of every visited statement with a source is empty.
C16_NoRegularImports ==
    /\ AllRegularImports = <<>>
    /\ (visit.node # 0 /\ Visited.source # NoSource) => visit.regular = <<>>

\* a named import specifier was visited that matches the regular-export set,
\* does not match the typed-export set and is not in the interface-import set
C16_Witness ==
    /\ visit.node # 0
    /\ visit.branch = "source"
    /\ \E i \in 1..Len(Visited.specifiers) :
          LET specifier == Visited.specifiers[i]
          IN  /\ specifier.type = "ImportSpecifier"
              /\ ~findInSet(specifier.local,
                            parseFileForExports(Visited.source).names)
              /\ findInSet(specifier.local, Range(getExports(file)))
              /\ specifier.local \notin visit.interfaceImports
              /\ InArray(visit.typed, LabelOf(specifier))

\* the statement at index n is a non-type-only export { X } with no source
\* whose X is in neither the type-name set nor the interface-import set
PlainExportOf(n, X) ==
    /\ file[n].type = "ExportNamedDeclaration"
    /\ file[n].source = NoSource
    /\ file[n].declaration = NoDeclaration
    /\ ~IsTypeOnly(file[n])
    /\ file[n].specifiers = <<ExportSpecifier(X, X)>>
    /\ X \notin getTypeDefinitions(file)
    /\ X \notin getInterfaceImports(file)

ExportedNames == {IThing, Thing, value, I}

\* C17 as stated: such an export { X } is reported if and only if an import
\* with a resolvable source that binds X, in any form, was visited before it.
C17_ReportedIffBoundEarlier ==
    \A n \in 1..(pc - 1) : \A X \in ExportedNames :
        PlainExportOf(n, X) =>
            (ReportsOn(n) # {} <=>
                \E m \in 1..(n - 1) :
                    /\ file[m].type = "ImportDeclaration"
                    /\ parseFileForExports(file[m].source).defined
                    /\ \E i \in 1..Len(file[m].specifiers) :
                          file[m].specifiers[i].local = X)

\* C17 as amended: such an export { X } is reported if and only if an import
\* with a resolvable source that has the named specifier X, not renamed, was
\* visited before it, type-only or not.
C17_ReportedIffNamedImportEarlier ==
    \A n \in 1..(pc - 1) : \A X \in ExportedNames :
        PlainExportOf(n, X) =>
            (ReportsOn(n) # {} <=>
                \E m \in 1..(n - 1) :
                    /\ file[m].type = "ImportDeclaration"
                    /\ parseFileForExports(file[m].source).defined
                    /\ \E i \in 1..Len(file[m].specifiers) :
                          file[m].specifiers[i] = ImportSpecifier(X, X))

\* export { value } was reported after a type-only import of value, in a file
\* that imports value a second time after the export
C17_Witness ==
    /\ pc = 4
    /\ file[1] = ImportDeclaration("type", <<ImportSpecifier(value, value)>>, "./A")
    /\ PlainExportOf(2, value)
    /\ file[3].type = "ImportDeclaration"
    /\ ReportsOn(2) # {}

\* a statement with a source that has no named import specifier written by
\* the claim: a re-export, or an import of default and namespace bindings only
Unclassified(node) ==
    /\ node.source # NoSource
    /\ \/ node.type = "ExportNamedDeclaration"
       \/ /\ node.type = "ImportDeclaration"
          /\ \A i \in 1..Len(node.specifiers) :
                node.specifiers[i].type \in
                    {"ImportDefaultSpecifier", "ImportNamespaceSpecifier"}

\* C18: the visit of a re-export with a source, or of an import whose
\* specifiers are only default or namespace bindings, leaves AllTypedImports
\* and AllRegularImports unchanged and reports nothing.
C18_UnclassifiedStatementsFrame ==
    [][(/\ pc <= Len(file)
        /\ pc' = pc + 1
        /\ Unclassified(file[pc]))
       => /\ AllTypedImports' = AllTypedImports
          /\ AllRegularImports' = AllRegularImports
          /\ reports' = reports]_vars

\* such a statement of a resolved module was visited after an import had
\* filled AllTypedImports, in a file that exports the name it binds
C18_Witness ==
    /\ visit.node # 0
    /\ Unclassified(Visited)
    /\ visit.branch = "source"
    /\ AllTypedImports # <<>>
    /\ \E i \in 1..Len(Visited.specifiers) :
          InArray(getExports(file), Visited.specifiers[i].local)

====
